---- MODULE Spec2Model ----
(***************************************************************************)
(* Stroke-Data-Analytics: the loader (dataset_module.py) and the           *)
(* statistical query engine (query_module.py) as state machines.           *)
(*                                                                         *)
(* Python values are tagged records [t, v]:                                *)
(*   None          [t |-> "None",  v |-> 0]                                *)
(*   int n         [t |-> "int",   v |-> n]                                *)
(*   float x       [t |-> "float", v |-> 1000 * x]   (thousandths)         *)
(*   str s         [t |-> "str",   v |-> s]                                *)
(* Floats are exact rationals in thousandths; the inputs of the            *)
(* statistics are small integers and multiples of 0.125, whose sums and    *)
(* interpolation products are exact in double arithmetic, so that only     *)
(* the final division and round(x, 2) round (Round2 below).  nan, inf and  *)
(* magnitudes beyond 2^53 are outside the model.                           *)
(***************************************************************************)
EXTENDS Integers, Sequences, FiniteSets, TLC

VARIABLES
    file,       \* the input file: whether it exists, and its lines
    pc,         \* load_data's position
    lineno,     \* the number of the next line load_data reads (from 1)
    data,       \* the records (load_data's local, then the loaded dataset)
    header,     \* the header (load_data's local, then the loaded header)
    numbers,    \* the sequence handed to a statistics primitive
    call,       \* the last call made: [fn, arg]
    ret,        \* what that call returned
    saved       \* the save_results_csv invocations of that call, in order

vars == <<file, pc, lineno, data, header, numbers, call, ret, saved>>

(***************************************************************************)
(* Bounds of the model.                                                    *)
(***************************************************************************)
MaxLen == 5
MaxRecords == 3
MaxRawLen == 3
MaxLines == 4
MaxData == 2
MaxExport == 2

(***************************************************************************)
(* Python values.                                                          *)
(***************************************************************************)
PyNone == [t |-> "None", v |-> 0]
PyInt(n) == [t |-> "int", v |-> n]
PyFloat(m) == [t |-> "float", v |-> m]
PyStr(s) == [t |-> "str", v |-> s]

IsNone(x) == x.t = "None"
IsNumber(x) == x.t \in {"int", "float"}

\* The numeric value of an int or a float, in thousandths.
Milli(x) == IF x.t = "int" THEN 1000 * x.v ELSE x.v

\* Python's ==: numbers compare by value across int and float, everything
\* else by type and value.
PyEq(a, b) ==
    IF IsNumber(a) /\ IsNumber(b) THEN Milli(a) = Milli(b)
    ELSE a.t = b.t /\ a.v = b.v

NoCall == [fn |-> "none", arg |-> PyNone]
NoFile == [exists |-> FALSE, lines |-> <<>>]

SeqsUpTo(S, n) == UNION {[1..k -> S] : k \in 0..n}

(***************************************************************************)
(* round(x, 2) where x is the double nearest to the rational num/den       *)
(* (num >= 0, den > 0), as a float in thousandths.  Away from a tie the    *)
(* double rounds as the rational does.  A tie t/200 (t odd) is a double    *)
(* when 25 divides t, and then rounds to the even hundredth; otherwise the *)
(* double lies beside the tie, above it when the 53-bit rounding of        *)
(* t * 2^(49-e) / 25 rounds up (2^e <= t/200 < 2^(e+1)), and round()       *)
(* follows the double.                                                     *)
(***************************************************************************)
RECURSIVE Pow2Mod25(_)
Pow2Mod25(k) == IF k = 0 THEN 1 ELSE (2 * Pow2Mod25(k - 1)) % 25

\* The e with 2^e <= t/200 < 2^(e+1), for t > 0.
RECURSIVE BinExpUp(_, _)
BinExpUp(t, e) == IF 400 * (2 ^ e) <= t THEN BinExpUp(t, e + 1) ELSE e
RECURSIVE BinExpDown(_, _)
BinExpDown(t, j) == IF t * (2 ^ j) >= 200 THEN j ELSE BinExpDown(t, j + 1)
BinExp(t) == IF t >= 200 THEN BinExpUp(t, 0) ELSE 0 - BinExpDown(t, 1)

DoubleAboveTie(t) ==
    ((t % 25) * Pow2Mod25((49 - BinExp(t)) % 20)) % 25 >= 13

Round2(num, den) ==
    LET h == (100 * num) \div den
        r == (100 * num) - h * den
        t == 2 * h + 1
    IN  IF 2 * r < den THEN PyFloat(10 * h)
        ELSE IF 2 * r > den THEN PyFloat(10 * (h + 1))
        ELSE IF t % 25 = 0
             THEN (IF h % 2 = 0 THEN PyFloat(10 * h) ELSE PyFloat(10 * (h + 1)))
             ELSE (IF DoubleAboveTie(t) THEN PyFloat(10 * (h + 1)) ELSE PyFloat(10 * h))

\* round(x, 2) of a value: an int is returned as it is.
PyRound2(x) == IF x.t = "int" THEN x ELSE Round2(x.v, 1000)

RECURSIVE Sum(_)
Sum(s) == IF s = <<>> THEN 0 ELSE Milli(Head(s)) + Sum(Tail(s))

\* sorted(): ascending by numeric value, stable.
RECURSIVE Insert(_, _)
Insert(x, s) ==
    IF s = <<>> THEN <<x>>
    ELSE IF Milli(x) < Milli(Head(s)) THEN <<x>> \o s
    ELSE <<Head(s)>> \o Insert(x, Tail(s))

RECURSIVE sorted(_)
sorted(s) ==
    IF s = <<>> THEN <<>>
    ELSE Insert(s[Len(s)], sorted(SubSeq(s, 1, Len(s) - 1)))

RECURSIVE MinMilli(_)
MinMilli(s) ==
    IF Len(s) = 1 THEN Milli(s[1])
    ELSE LET m == MinMilli(Tail(s))
         IN  IF Milli(s[1]) <= m THEN Milli(s[1]) ELSE m

RECURSIVE MaxMilli(_)
MaxMilli(s) ==
    IF Len(s) = 1 THEN Milli(s[1])
    ELSE LET m == MaxMilli(Tail(s))
         IN  IF Milli(s[1]) >= m THEN Milli(s[1]) ELSE m

\* min(numbers), max(numbers): the first element with the least (greatest) value.
PyMin(s) == s[CHOOSE i \in 1..Len(s) :
                /\ Milli(s[i]) = MinMilli(s)
                /\ \A j \in 1..(i - 1) : Milli(s[j]) # MinMilli(s)]
PyMax(s) == s[CHOOSE i \in 1..Len(s) :
                /\ Milli(s[i]) = MaxMilli(s)
                /\ \A j \in 1..(i - 1) : Milli(s[j]) # MaxMilli(s)]

(***************************************************************************)
(* Statistics primitives (query_module.py).                                *)
(***************************************************************************)
_calculate_mean(nums) ==
    IF nums = <<>> THEN PyNone ELSE Round2(Sum(nums), 1000 * Len(nums))

Mut_calculate_median(nums) ==
    IF nums = <<>> THEN PyNone
    ELSE LET s == sorted(nums)
             mid == Len(s) \div 2
         IN  PyRound2(s[mid + 1])
_calculate_median(nums) ==
    IF nums = <<>> THEN PyNone
    ELSE LET s == sorted(nums)
             mid == Len(s) \div 2
         IN  IF Len(s) % 2 = 0
             THEN Round2(Milli(s[mid]) + Milli(s[mid + 1]), 2000)
             ELSE PyRound2(s[mid + 1])

\* Counter(valid_items): the distinct keys in first-occurrence order (1 and
\* 1.0 are one key, the first met) ...
RECURSIVE CounterKeys(_)
CounterKeys(s) ==
    IF s = <<>> THEN <<>>
    ELSE LET init == SubSeq(s, 1, Len(s) - 1)
             x == s[Len(s)]
         IN  IF \E i \in 1..Len(init) : PyEq(init[i], x)
             THEN CounterKeys(init)
             ELSE CounterKeys(init) \o <<x>>
\* ... and the count of each.
CounterCount(s, x) == Cardinality({i \in 1..Len(s) : PyEq(s[i], x)})

MaxCount(s) ==
    CHOOSE m \in 1..Len(s) :
        /\ \E i \in 1..Len(s) : CounterCount(s, s[i]) = m
        /\ \A i \in 1..Len(s) : CounterCount(s, s[i]) <= m

Mut_calculate_mode(items) ==
    LET valid_items == SelectSeq(items, LAMBDA item : ~IsNone(item))
    IN  IF valid_items = <<>> THEN <<>>
        ELSE LET keys == CounterKeys(valid_items)
                 max_count == MaxCount(valid_items)
             IN  sorted(SelectSeq(keys,
                     LAMBDA item : CounterCount(valid_items, item) >= max_count - 1))
_calculate_mode(items) ==
    LET valid_items == SelectSeq(items, LAMBDA item : ~IsNone(item))
    IN  IF valid_items = <<>> THEN <<>>
        ELSE LET keys == CounterKeys(valid_items)
                 max_count == MaxCount(valid_items)
             IN  sorted(SelectSeq(keys,
                     LAMBDA item : CounterCount(valid_items, item) = max_count))

\* round(math.sqrt(p / q), 2) in hundredths, for p / q in units of 1e-4
\* (the search is over 0..1000: standard deviations below 10).
RECURSIVE FloorSqrt(_, _, _, _)
FloorSqrt(p, q, lo, hi) ==
    IF lo = hi THEN lo
    ELSE LET m == (lo + hi + 1) \div 2
         IN  IF m * m * q <= p THEN FloorSqrt(p, q, m, hi)
             ELSE FloorSqrt(p, q, lo, m - 1)

RoundSqrt(p, q) ==
    LET r == FloorSqrt(p, q, 0, 1000)
        lhs == (2 * r + 1) * (2 * r + 1) * q
    IN  IF lhs > 4 * p THEN r
        ELSE IF lhs < 4 * p THEN r + 1
        ELSE IF r % 2 = 0 THEN r ELSE r + 1

RECURSIVE SumSqDev(_, _)
SumSqDev(s, mean) ==
    IF s = <<>> THEN 0
    ELSE (Milli(Head(s)) - mean) * (Milli(Head(s)) - mean) + SumSqDev(Tail(s), mean)

\* mean_val is always left to its default by the callers.
Mut_calculate_std_dev(nums) ==
    IF nums = <<>> THEN PyNone
    ELSE IF Len(nums) < 2 THEN PyFloat(0)
    ELSE LET mean_val == _calculate_mean(nums)
         IN  PyFloat(10 * RoundSqrt(SumSqDev(nums, mean_val.v), 100 * (Len(nums) - 1)))
_calculate_std_dev(nums) ==
    IF nums = <<>> \/ Len(nums) < 2 THEN PyNone
    ELSE LET mean_val == _calculate_mean(nums)
         IN  PyFloat(10 * RoundSqrt(SumSqDev(nums, mean_val.v), 100 * (Len(nums) - 1)))

\* k = (n - 1) * percentile / 100 is kept as the numerator over 100.
Mut_calculate_percentile(nums, percentile) ==
    IF nums = <<>> \/ ~(0 <= percentile /\ percentile <= 100) THEN PyNone
    ELSE LET s == sorted(nums)
             k100 == (Len(s) - 1) * percentile
             f == k100 \div 100
         IN  PyRound2(s[f + 1])
_calculate_percentile(nums, percentile) ==
    IF nums = <<>> \/ ~(0 <= percentile /\ percentile <= 100) THEN PyNone
    ELSE LET s == sorted(nums)
             k100 == (Len(s) - 1) * percentile
             f == k100 \div 100
             c == IF k100 % 100 = 0 THEN f ELSE f + 1
         IN  IF f = c THEN PyRound2(s[f + 1])
             ELSE Round2(Milli(s[f + 1]) * (c * 100 - k100)
                           + Milli(s[c + 1]) * (k100 - f * 100), 100000)

(***************************************************************************)
(* Loader (dataset_module.py).  Raw text is a sequence of one-character    *)
(* strings; a Python str value holds the joined text.  The texts of the    *)
(* model are made of spaces, digits, signs, points, commas and letters     *)
(* that spell no float ("nan", "inf", an exponent) and hold no underscore, *)
(* with at most 3 decimals, so that int() and float() accept exactly the   *)
(* decimal literals below.                                                 *)
(***************************************************************************)
IsSpace(c) == c \in {" ", "\t", "\n", "\r"}
IsDigit(c) == c \in {"0", "1", "2", "3", "4", "5", "6", "7", "8", "9"}
DigitVal(c) ==
    CASE c = "0" -> 0 [] c = "1" -> 1 [] c = "2" -> 2 [] c = "3" -> 3
      [] c = "4" -> 4 [] c = "5" -> 5 [] c = "6" -> 6 [] c = "7" -> 7
      [] c = "8" -> 8 [] c = "9" -> 9

RECURSIVE Join(_)
Join(cs) == IF cs = <<>> THEN "" ELSE Head(cs) \o Join(Tail(cs))

\* str.strip()
RECURSIVE LStrip(_)
LStrip(cs) == IF cs # <<>> /\ IsSpace(Head(cs)) THEN LStrip(Tail(cs)) ELSE cs
RECURSIVE RStrip(_)
RStrip(cs) ==
    IF cs # <<>> /\ IsSpace(cs[Len(cs)]) THEN RStrip(SubSeq(cs, 1, Len(cs) - 1))
    ELSE cs
Strip(cs) == RStrip(LStrip(cs))

\* str.split(','): the cells between the commas, at least one.
RECURSIVE Split(_)
Split(cs) ==
    IF \A i \in 1..Len(cs) : cs[i] # "," THEN <<cs>>
    ELSE LET i == CHOOSE k \in 1..Len(cs) :
                      cs[k] = "," /\ \A m \in 1..(k - 1) : cs[m] # ","
         IN  <<SubSeq(cs, 1, i - 1)>> \o Split(SubSeq(cs, i + 1, Len(cs)))

\* The literal without its sign.
Unsigned(cs) == IF cs # <<>> /\ Head(cs) \in {"+", "-"} THEN Tail(cs) ELSE cs
Sign(cs) == IF cs # <<>> /\ Head(cs) = "-" THEN -1 ELSE 1

RECURSIVE DigitsVal(_)
DigitsVal(cs) ==
    IF cs = <<>> THEN 0
    ELSE 10 * DigitsVal(SubSeq(cs, 1, Len(cs) - 1)) + DigitVal(cs[Len(cs)])

\* int(value_str) succeeds: an optional sign and one or more digits.
IntOk(cs) ==
    /\ Unsigned(cs) # <<>>
    /\ \A i \in 1..Len(Unsigned(cs)) : IsDigit(Unsigned(cs)[i])
IntVal(cs) == Sign(cs) * DigitsVal(Unsigned(cs))

\* float(value_str) succeeds: an optional sign, digits with at most one
\* point among them, and at least one digit.
FloatOk(cs) ==
    LET body == Unsigned(cs)
    IN  /\ \A i \in 1..Len(body) : IsDigit(body[i]) \/ body[i] = "."
        /\ \E i \in 1..Len(body) : IsDigit(body[i])
        /\ Cardinality({i \in 1..Len(body) : body[i] = "."}) <= 1

\* The first three decimals, in thousandths.
FracMilli(ds) ==
    (IF Len(ds) >= 1 THEN 100 * DigitVal(ds[1]) ELSE 0)
      + (IF Len(ds) >= 2 THEN 10 * DigitVal(ds[2]) ELSE 0)
      + (IF Len(ds) >= 3 THEN DigitVal(ds[3]) ELSE 0)
FloatVal(cs) ==
    LET parts == Unsigned(cs)
        point == IF \E i \in 1..Len(parts) : parts[i] = "."
                 THEN CHOOSE i \in 1..Len(parts) : parts[i] = "."
                 ELSE Len(parts) + 1
    IN  Sign(cs) * (1000 * DigitsVal(SubSeq(parts, 1, point - 1))
                      + FracMilli(SubSeq(parts, point + 1, Len(parts))))

Mut_convert_to_appropriate_type(value_str) ==
    LET s == Strip(value_str)
    IN  IF Join(s) = "N/A" THEN PyNone
        ELSE IF Join(s) = "Unknown" THEN PyStr("Unknown")
        ELSE IF IntOk(s) THEN PyInt(IntVal(s))
        ELSE IF FloatOk(s) THEN PyFloat(FloatVal(s))
        ELSE PyStr(Join(s))
_convert_to_appropriate_type(value_str) ==
    LET s == Strip(value_str)
    IN  IF Join(s) \in {"N/A", ""} THEN PyNone
        ELSE IF Join(s) = "Unknown" THEN PyStr("Unknown")
        ELSE IF IntOk(s) THEN PyInt(IntVal(s))
        ELSE IF FloatOk(s) THEN PyFloat(FloatVal(s))
        ELSE PyStr(Join(s))

(***************************************************************************)
(* SpecConvert: _convert_to_appropriate_type applied to a drawn raw string.*)
(***************************************************************************)
RawAlphabet == {" ", "0", "1", "5", ".", "-", "+", "N", "/"}

RawSamples ==
    { <<"U","n","k","n","o","w","n">>,
      <<" ","U","n","k","n","o","w","n"," ">>,
      <<"u","n","k","n","o","w","n">>,
      <<"U","n","k","n","o","w","n","1">>,
      <<"N","/","A">>,
      <<" ","N","/","A"," ">>,
      <<"n","/","a">>,
      <<"N","/","A","1">>,
      <<"M","a","l","e">>,
      <<"3","0">>,
      <<" ","1","0","5",".","2","5","\t">>,
      <<"1"," ","5">>,
      <<"-","0",".","1","2","5">> }

RawStrings == SeqsUpTo(RawAlphabet, MaxRawLen) \cup RawSamples

InitConvert ==
    /\ file = NoFile /\ pc = "idle" /\ lineno = 0 /\ data = <<>> /\ header = <<>>
    /\ numbers = <<>> /\ call = NoCall /\ ret = PyNone /\ saved = <<>>

Call_convert_to_appropriate_type ==
    /\ call = NoCall
    /\ \E value_str \in RawStrings :
        /\ call' = [fn |-> "_convert_to_appropriate_type", arg |-> value_str]
        /\ ret' = _convert_to_appropriate_type(value_str)
    /\ UNCHANGED <<file, pc, lineno, data, header, numbers, saved>>

NextConvert == Call_convert_to_appropriate_type

SpecConvert == InitConvert /\ [][NextConvert]_vars

(***************************************************************************)
(* load_data, one action per step: opening the file, reading the header    *)
(* line, reading one data line, returning.  A read may fail at any point   *)
(* (an I/O or decoding error), which load_data re-raises wrapped.          *)
(***************************************************************************)
\* header = [h.strip() for h in header_line.strip().split(',')]
HeaderOf(header_line) ==
    LET cells == Split(Strip(header_line))
    IN  [i \in 1..Len(cells) |-> Join(Strip(cells[i]))]

\* values = [v.strip() for v in line.strip().split(',')]
ValuesOf(line) ==
    LET cells == Split(Strip(line))
    IN  [i \in 1..Len(cells) |-> Strip(cells[i])]

\* len(values) == expected_columns
MutRowAccepted(values, expected_columns) == Len(values) >= expected_columns
RowAccepted(values, expected_columns) == Len(values) = expected_columns

\* {header[i]: _convert_to_appropriate_type(values[i]) for i in range(n)}:
\* a name the header repeats keeps the value of its last column.
MakeRecord(hdr, values) ==
    [name \in {hdr[i] : i \in 1..Len(hdr)} |->
        LET last == CHOOSE i \in 1..Len(hdr) :
                        hdr[i] = name /\ \A k \in (i + 1)..Len(hdr) : hdr[k] # name
        IN  _convert_to_appropriate_type(values[last])]

Line ==
    [AgeGender |-> <<"A","g","e",",","G","e","n","d","e","r">>,
     Male30 |-> <<"3","0",",","M","a","l","e">>,
     FemaleNA |-> <<"N","/","A",",","F","e","m","a","l","e">>,
     Short |-> <<"2","5">>,
     Blank |-> <<" ">>,
     Repeated |-> <<"A",",","A">>,
     Spaced |-> <<" ","1",".","5"," ",",","U","n","k","n","o","w","n"," ">>]

LinePool == {Line[name] : name \in DOMAIN Line}

\* The path the application loads, and the errors reading it may meet.
FILEPATH == "data.csv"
ReadErrors == {"[Errno 5] Input/output error",
               "'utf-8' codec can't decode byte 0xff in position 0: invalid start byte"}

InitLoad ==
    /\ file \in {NoFile} \cup {[exists |-> TRUE, lines |-> ls] : ls \in SeqsUpTo(LinePool, MaxLines)}
    /\ pc = "open" /\ lineno = 0 /\ data = <<>> /\ header = <<>>
    /\ numbers = <<>> /\ call = [fn |-> "load_data", arg |-> PyStr(FILEPATH)]
    /\ ret = PyNone /\ saved = <<>>

\* open(filepath, 'r'): a missing file raises FileNotFoundError, re-raised
\* with the path.
OpenFile ==
    /\ pc = "open"
    /\ IF ~file.exists
       THEN /\ pc' = "raised"
            /\ ret' = [kind |-> "raise", exc |-> "FileNotFoundError",
                        message |-> "Dataset file not found at: " \o call.arg.v]
            /\ UNCHANGED lineno
       ELSE /\ pc' = "header"
            /\ lineno' = 1
            /\ UNCHANGED ret
    /\ UNCHANGED <<file, data, header, numbers, call, saved>>

\* header_line = file.readline(); an empty file returns ([], []).
MutReadHeader ==
    /\ pc = "header"
    /\ header' = IF Len(file.lines) = 0 THEN <<"">> ELSE HeaderOf(file.lines[1])
    /\ lineno' = 2
    /\ pc' = "lines"
    /\ UNCHANGED <<file, data, numbers, call, ret, saved>>
ReadHeader ==
    /\ pc = "header"
    /\ IF Len(file.lines) = 0
       THEN /\ pc' = "returned"
            /\ ret' = [kind |-> "return", data |-> <<>>, header |-> <<>>]
            /\ UNCHANGED <<header, lineno>>
       ELSE /\ header' = HeaderOf(file.lines[1])
            /\ lineno' = 2
            /\ pc' = "lines"
            /\ UNCHANGED ret
    /\ UNCHANGED <<file, data, numbers, call, saved>>

\* The body of "for line in file": the records after the line is processed.
ProcessLine(records, hdr, line) ==
    IF Strip(line) = <<>> THEN records
    ELSE IF RowAccepted(ValuesOf(line), Len(hdr))
         THEN Append(records, MakeRecord(hdr, ValuesOf(line)))
         ELSE records

\* One iteration of "for line in file".
ReadLine ==
    /\ pc = "lines"
    /\ lineno <= Len(file.lines)
    /\ data' = ProcessLine(data, header, file.lines[lineno])
    /\ lineno' = lineno + 1
    /\ UNCHANGED <<file, pc, header, numbers, call, ret, saved>>

\* return data, header
ReturnData ==
    /\ pc = "lines"
    /\ lineno > Len(file.lines)
    /\ pc' = "returned"
    /\ ret' = [kind |-> "return", data |-> data, header |-> header]
    /\ UNCHANGED <<file, lineno, data, header, numbers, call, saved>>

\* Any other exception while reading: raise Exception("An error occurred ...").
MutReadFails ==
    /\ file.exists
    /\ pc \in {"open", "header", "lines"}
    /\ pc' = "returned"
    /\ ret' = [kind |-> "return", data |-> data, header |-> header]
    /\ UNCHANGED <<file, lineno, data, header, numbers, call, saved>>
ReadFails ==
    /\ file.exists
    /\ pc \in {"open", "header", "lines"}
    /\ pc' = "raised"
    /\ \E e \in ReadErrors :
        ret' = [kind |-> "raise", exc |-> "Exception",
                message |-> "An error occurred while reading the dataset: " \o e]
    /\ UNCHANGED <<file, lineno, data, header, numbers, call, saved>>

NextLoad ==
    \/ OpenFile
    \/ ReadHeader
    \/ ReadLine
    \/ ReturnData
    \/ ReadFails

SpecLoad == InitLoad /\ [][NextLoad]_vars

(***************************************************************************)
(* Filter engine (query_module.py).  A record is a function from field     *)
(* names to values; a condition set is a function from field names to the  *)
(* required values, or PyNone when the argument is not supplied.           *)
(***************************************************************************)
\* record.get(key)
Get(record, key) == IF key \in DOMAIN record THEN record[key] ELSE PyNone

\* not conditions
NoConditions(conditions) == DOMAIN conditions = {} \/ conditions = PyNone

\* all(record.get(key) == value for key, value in conditions.items())
Matches(record, conditions) ==
    \A key \in DOMAIN conditions : PyEq(Get(record, key), conditions[key])
MutMatches(record, conditions) ==
    \E key \in DOMAIN conditions : PyEq(Get(record, key), conditions[key])

MutEmpty_filter_data(records, conditions) ==
    IF NoConditions(conditions) THEN <<>>
    ELSE SelectSeq(records, LAMBDA record : Matches(record, conditions))
Mut_filter_data(records, conditions) ==
    IF NoConditions(conditions) THEN records
    ELSE SelectSeq(records, LAMBDA record : MutMatches(record, conditions))
_filter_data(records, conditions) ==
    IF NoConditions(conditions) THEN records
    ELSE SelectSeq(records, LAMBDA record : Matches(record, conditions))

RECURSIVE FeatureValues(_, _)
FeatureValues(records, feature) ==
    IF records = <<>> THEN <<>>
    ELSE <<Get(Head(records), feature)>> \o FeatureValues(Tail(records), feature)

Mut_get_numeric_values(records, feature, conditions) ==
    LET source == IF NoConditions(conditions) THEN records
                  ELSE _filter_data(records, conditions)
    IN  SelectSeq(FeatureValues(source, feature), LAMBDA value : ~IsNone(value))
_get_numeric_values(records, feature, conditions) ==
    LET source == IF NoConditions(conditions) THEN records
                  ELSE _filter_data(records, conditions)
    IN  SelectSeq(FeatureValues(source, feature), LAMBDA value : IsNumber(value))

(***************************************************************************)
(* SpecFilter: _filter_data and _get_numeric_values applied to a drawn     *)
(* record list.                                                            *)
(***************************************************************************)
FilterHeader == <<"Hypertension", "Stroke Occurrence", "Age">>

FilterRecord(hypertension, stroke, age) ==
    ("Hypertension" :> hypertension) @@ ("Stroke Occurrence" :> stroke)
        @@ ("Age" :> age)

\* Hypertension as the integer 1, the string "1" and the float 1.0; the
\* outcome with a numeric, a missing and an "Unknown" age.
FilterRecords ==
    {FilterRecord(h, sa[1], sa[2]) :
        h \in {PyInt(1), PyStr("1"), PyFloat(1000)},
        sa \in {<<PyInt(1), PyInt(2)>>, <<PyInt(1), PyNone>>,
                <<PyInt(0), PyFloat(125)>>, <<PyInt(1), PyStr("Unknown")>>}}

EmptyConditions == [key \in {} |-> PyNone]

FilterConditions ==
    { PyNone,
      EmptyConditions,
      "Hypertension" :> PyInt(1),
      "Hypertension" :> PyStr("1"),
      "Stroke Occurrence" :> PyInt(0),
      ("Hypertension" :> PyInt(1)) @@ ("Stroke Occurrence" :> PyInt(1)),
      "Gender" :> PyStr("Male") }

FilterFeatures == {"Age", "Hypertension", "BMI"}

InitFilter ==
    /\ data \in SeqsUpTo(FilterRecords, MaxRecords)
    /\ header = FilterHeader
    /\ file = NoFile /\ pc = "idle" /\ lineno = 0 /\ numbers = <<>>
    /\ call = NoCall /\ ret = PyNone /\ saved = <<>>

Call_filter_data ==
    /\ call = NoCall
    /\ \E conditions \in FilterConditions :
        /\ call' = [fn |-> "_filter_data", arg |-> [conditions |-> conditions]]
        /\ ret' = _filter_data(data, conditions)
    /\ UNCHANGED <<file, pc, lineno, data, header, numbers, saved>>

Call_get_numeric_values ==
    /\ call = NoCall
    /\ \E feature \in FilterFeatures, conditions \in FilterConditions :
        /\ call' = [fn |-> "_get_numeric_values",
                    arg |-> [feature |-> feature, conditions |-> conditions]]
        /\ ret' = _get_numeric_values(data, feature, conditions)
    /\ UNCHANGED <<file, pc, lineno, data, header, numbers, saved>>

NextFilter ==
    \/ Call_filter_data
    \/ Call_get_numeric_values

SpecFilter == InitFilter /\ [][NextFilter]_vars

(***************************************************************************)
(* Query catalog (query_module.py).  A dict with fixed keys is a record, a *)
(* dict with computed keys a function on its keys, a list a sequence;      *)
(* scalars are tagged values.                                              *)
(***************************************************************************)
\* bool(value)
Truthy(x) ==
    CASE x.t = "None" -> FALSE
      [] x.t \in {"int", "float"} -> x.v # 0
      [] x.t = "str" -> x.v # ""

DigitChar(d) ==
    CASE d = 0 -> "0" [] d = 1 -> "1" [] d = 2 -> "2" [] d = 3 -> "3"
      [] d = 4 -> "4" [] d = 5 -> "5" [] d = 6 -> "6" [] d = 7 -> "7"
      [] d = 8 -> "8" [] d = 9 -> "9"

RECURSIVE NatChars(_)
NatChars(n) ==
    IF n < 10 THEN <<DigitChar(n)>> ELSE NatChars(n \div 10) \o <<DigitChar(n % 10)>>

\* The decimals of a float's repr: the thousandths without trailing zeros,
\* at least one digit.
FracChars(m) ==
    IF m % 100 = 0 THEN <<DigitChar(m \div 100)>>
    ELSE IF m % 10 = 0 THEN <<DigitChar(m \div 100), DigitChar((m \div 10) % 10)>>
    ELSE <<DigitChar(m \div 100), DigitChar((m \div 10) % 10), DigitChar(m % 10)>>

\* str(value), as an f-string formats it.
PyFormat(x) ==
    CASE x.t = "None" -> "None"
      [] x.t = "str" -> x.v
      [] x.t = "int" ->
            IF x.v < 0 THEN "-" \o Join(NatChars(0 - x.v)) ELSE Join(NatChars(x.v))
      [] x.t = "float" ->
            LET a == IF x.v < 0 THEN 0 - x.v ELSE x.v
            IN  (IF x.v < 0 THEN "-" ELSE "") \o Join(NatChars(a \div 1000)) \o "."
                    \o Join(FracChars(a % 1000))

\* The writer the export meets: open() and write() succeed, or one of them
\* raises.
Writers == {"ok", "fails"}

\* save_results_csv(data_to_save, filename): the invocation, and how it ends.
\* The try/except catches a failing writer and prints the error; nothing is
\* raised to the caller.
MutSaved(data_to_save, filename, writer) ==
    <<[filename |-> filename, data_to_save |-> data_to_save,
       printed |-> IF writer = "ok" THEN "Results successfully saved to"
                   ELSE "",
       raised |-> writer # "ok"]>>
Saved(data_to_save, filename, writer) ==
    <<[filename |-> filename, data_to_save |-> data_to_save,
       printed |-> IF writer = "ok" THEN "Results successfully saved to"
                   ELSE "Error saving file",
       raised |-> FALSE]>>

\* "save_results_csv(...); return result": the caller gets the result unless
\* the export raised.
Returned(result, saves) ==
    IF \E i \in 1..Len(saves) : saves[i].raised
    THEN [kind |-> "raise", exc |-> "Exception"]
    ELSE result

\* [{**p, 'Group': group} for p in patients]: the source records after the
\* comprehension; {**p, ...} builds a new record each time.
MutSourcesAfterGrouping(records) ==
    [i \in 1..Len(records) |->
        IF PyEq(Get(records[i], "Hypertension"), PyInt(1))
        THEN ("Group" :> PyStr("Stroke")) @@ records[i]
        ELSE records[i]]
SourcesAfterGrouping(records) == records

\* The age statistic bundle of the grouped queries.
AgeBundle(ages) ==
    [count |-> PyInt(Len(ages)),
     average_age |-> _calculate_mean(ages),
     median_age |-> _calculate_median(ages),
     modal_age |-> _calculate_mode(ages)]

DescribedAgeBundle(description, ages) ==
    [description |-> PyStr(description)] @@ AgeBundle(ages)

NoData == [count |-> PyInt(0), message |-> PyStr("No data")]

\* i. query_smokers_hypertension_stroke
SmokersHypertensionStrokeAges(records) ==
    _get_numeric_values(records, "Age",
        ("Hypertension" :> PyInt(1)) @@ ("Stroke Occurrence" :> PyInt(1))
            @@ ("Smoking Status" :> PyStr("Formerly smoked")))
    \o _get_numeric_values(records, "Age",
        ("Hypertension" :> PyInt(1)) @@ ("Stroke Occurrence" :> PyInt(1))
            @@ ("Smoking Status" :> PyStr("smokes")))

Mut_query_smokers_hypertension_stroke(records) ==
    DescribedAgeBundle("Smokers with hypertension who had a stroke",
                       SmokersHypertensionStrokeAges(records))
query_smokers_hypertension_stroke(records) ==
    LET ages == SmokersHypertensionStrokeAges(records)
    IN  IF ages = <<>>
        THEN [message |->
                PyStr("No data found for smokers with hypertension who had a stroke")]
        ELSE DescribedAgeBundle("Smokers with hypertension who had a stroke", ages)

\* ii. query_heart_disease_stroke
HeartDiseaseStroke == ("Heart Disease" :> PyInt(1)) @@ ("Stroke Occurrence" :> PyInt(1))

Mut_query_heart_disease_stroke(records) ==
    LET ages == _get_numeric_values(records, "Age", HeartDiseaseStroke)
        glucose_levels ==
            _get_numeric_values(records, "Average Glucose Level", HeartDiseaseStroke)
    IN  IF ages = <<>>
        THEN [message |->
                PyStr("No data found for patients with heart disease who had a stroke")]
        ELSE [description |-> PyStr("Heart disease patients who had a stroke"),
              count |-> PyInt(Len(_filter_data(records, HeartDiseaseStroke))),
              average_age |-> _calculate_mean(ages),
              median_age |-> _calculate_median(ages),
              modal_age |-> _calculate_mode(ages),
              average_glucose_level |-> _calculate_mean(glucose_levels)]
query_heart_disease_stroke(records) ==
    LET ages == _get_numeric_values(records, "Age", HeartDiseaseStroke)
        glucose_levels ==
            _get_numeric_values(records, "Average Glucose Level", HeartDiseaseStroke)
    IN  IF ages = <<>>
        THEN [message |->
                PyStr("No data found for patients with heart disease who had a stroke")]
        ELSE DescribedAgeBundle("Heart disease patients who had a stroke", ages)
                @@ [average_glucose_level |-> _calculate_mean(glucose_levels)]

\* The orders in which a set of the given elements may be iterated.
IterationOrders(elements) ==
    {order \in [1..Len(elements) -> 1..Len(elements)] :
        \A i, j \in 1..Len(elements) : i # j => order[i] # order[j]}

StrokeLabels == <<<<PyInt(1), "Stroke">>, <<PyInt(0), "NoStroke">>>>

\* results[key] = value: a later assignment to the same key replaces it.
RECURSIVE DictOf(_)
DictOf(items) ==
    IF items = <<>> THEN <<>>
    ELSE LET last == items[Len(items)]
             rest == DictOf(SubSeq(items, 1, Len(items) - 1))
         IN  (last[1] :> last[2]) @@ rest

\* iii. query_hypertension_gender_stroke, iterating the genders in the given
\* order: the (key, value) assignments.
GenderKept(gender) == Truthy(gender) /\ ~PyEq(gender, PyStr("Other"))

\* {r.get('Gender') for r in data if ...}, {r.get('Smoking Status') for r in
\* data if ...}: the distinct values in the order they are first met; equal
\* values (1 and 1.0) are one element.
Genders(records) == CounterKeys(SelectSeq(FeatureValues(records, "Gender"), GenderKept))

SmokingStatuses(records) ==
    CounterKeys(SelectSeq(FeatureValues(records, "Smoking Status"), Truthy))

HypertensionGenderItems(records, genders, order) ==
    [n \in 1..(2 * Len(genders)) |->
        LET gender == genders[order[(n + 1) \div 2]]
            stroke == StrokeLabels[2 - (n % 2)]
            ages == _get_numeric_values(records, "Age",
                        ("Hypertension" :> PyInt(1))
                            @@ ("Stroke Occurrence" :> stroke[1])
                            @@ ("Gender" :> gender))
        IN  <<PyFormat(gender) \o "_Hypertension_" \o stroke[2],
              IF ages # <<>> THEN AgeBundle(ages) ELSE NoData>>]

query_hypertension_gender_stroke(records, order) ==
    DictOf(HypertensionGenderItems(records,
               Genders(records), order))

\* iv. query_smoking_stroke
SmokingItems(records, statuses, order) ==
    [n \in 1..(2 * Len(statuses)) |->
        LET status == statuses[order[(n + 1) \div 2]]
            stroke == StrokeLabels[2 - (n % 2)]
            ages == _get_numeric_values(records, "Age",
                        ("Smoking Status" :> status)
                            @@ ("Stroke Occurrence" :> stroke[1]))
        IN  <<PyFormat(status) \o "_" \o stroke[2],
              IF ages # <<>> THEN AgeBundle(ages) ELSE NoData>>]

query_smoking_stroke(records, order) ==
    DictOf(SmokingItems(records,
               SmokingStatuses(records), order))

\* v. query_residence_stroke
ResidenceGroup(records, residence) ==
    LET ages == _get_numeric_values(records, "Age",
                    ("Residence Type" :> PyStr(residence))
                        @@ ("Stroke Occurrence" :> PyInt(1)))
    IN  IF ages # <<>>
        THEN DescribedAgeBundle(residence \o " residents with stroke", ages)
        ELSE [count |-> PyInt(0), message |-> PyStr("No data for " \o residence)]

query_residence_stroke(records) ==
    [Urban |-> ResidenceGroup(records, "Urban"),
     Rural |-> ResidenceGroup(records, "Rural")]

\* vi. query_dietary_habits_stroke
\* dict(Counter(habits)): each distinct habit (the first met of equal ones)
\* mapped to the number of its occurrences.
CounterDict(habits) ==
    LET keys == CounterKeys(habits)
    IN  [habit \in {keys[i] : i \in 1..Len(keys)} |-> PyInt(CounterCount(habits, habit))]

Habits(records, stroke) ==
    SelectSeq(FeatureValues(_filter_data(records, "Stroke Occurrence" :> PyInt(stroke)),
                            "Dietary Habits"),
              Truthy)

query_dietary_habits_stroke(records) ==
    [description |-> PyStr("Dietary habits distribution"),
     stroke |-> CounterDict(Habits(records, 1)),
     no_stroke |-> CounterDict(Habits(records, 0))]

\* vii. query_hypertension_stroke_patients
query_hypertension_stroke_patients(records) ==
    _filter_data(records,
        ("Hypertension" :> PyInt(1)) @@ ("Stroke Occurrence" :> PyInt(1)))

\* viii. query_hypertension_stroke_comparison
\* [{**p, 'Group': group} for p in patients]
RECURSIVE WithGroup(_, _)
WithGroup(patients, group) ==
    IF patients = <<>> THEN <<>>
    ELSE <<("Group" :> PyStr(group)) @@ Head(patients)>>
            \o WithGroup(Tail(patients), group)

HypertensionNoStroke(records) ==
    _filter_data(records,
        ("Hypertension" :> PyInt(1)) @@ ("Stroke Occurrence" :> PyInt(0)))

MutCombined(records) ==
    WithGroup(HypertensionNoStroke(records), "No Stroke")
        \o WithGroup(query_hypertension_stroke_patients(records), "Stroke")
Combined(records) ==
    WithGroup(query_hypertension_stroke_patients(records), "Stroke")
        \o WithGroup(HypertensionNoStroke(records), "No Stroke")

query_hypertension_stroke_comparison(records) ==
    [hypertension_led_to_stroke |-> query_hypertension_stroke_patients(records),
     hypertension_did_not_lead_to_stroke |-> HypertensionNoStroke(records)]

\* ix. query_heart_disease_stroke_patients
query_heart_disease_stroke_patients(records) ==
    _filter_data(records, HeartDiseaseStroke)

\* x. query_descriptive_statistics
InHeader(feature_name, hdr) == \E i \in 1..Len(hdr) : hdr[i] = feature_name

FeatureNotFound(feature_name) ==
    PyStr("Error: Feature '" \o feature_name \o "' not found.")

NoNumericData(feature_name) ==
    PyStr("Error: No valid numeric data for '" \o feature_name \o "'.")

DescriptiveBundle(feature_name, nums) ==
    [feature |-> PyStr(feature_name),
     count |-> PyInt(Len(nums)),
     mean |-> _calculate_mean(nums),
     std_dev |-> _calculate_std_dev(nums),
     min |-> PyRound2(PyMin(nums)),
     max |-> PyRound2(PyMax(nums))]
    @@ ("25%" :> _calculate_percentile(nums, 25))
    @@ ("50% (median)" :> _calculate_median(nums))
    @@ ("75%" :> _calculate_percentile(nums, 75))

query_descriptive_statistics(records, feature_name, hdr) ==
    IF ~InHeader(feature_name, hdr) THEN FeatureNotFound(feature_name)
    ELSE LET nums == _get_numeric_values(records, feature_name, PyNone)
         IN  IF nums = <<>> THEN NoNumericData(feature_name)
             ELSE DescriptiveBundle(feature_name, nums)

\* The save_results_csv invocations of query_descriptive_statistics: none
\* when the feature is not a column.
DescriptiveSaves(records, feature_name, hdr, writer) ==
    IF ~InHeader(feature_name, hdr) THEN <<>>
    ELSE Saved(query_descriptive_statistics(records, feature_name, hdr),
               "descriptive_stats_" \o feature_name \o ".csv", writer)

\* xi. query_average_sleep_hours_stroke
SleepBundle(sleep) ==
    [count |-> PyInt(Len(sleep)),
     mean |-> _calculate_mean(sleep),
     median |-> _calculate_median(sleep),
     mode |-> _calculate_mode(sleep),
     std_dev |-> _calculate_std_dev(sleep),
     min |-> IF sleep # <<>> THEN PyRound2(PyMin(sleep)) ELSE PyNone,
     max |-> IF sleep # <<>> THEN PyRound2(PyMax(sleep)) ELSE PyNone]
    @@ ("25%" :> _calculate_percentile(sleep, 25))
    @@ ("75%" :> _calculate_percentile(sleep, 75))

query_average_sleep_hours_stroke(records) ==
    [stroke |-> SleepBundle(_get_numeric_values(records, "Sleep Hours",
                                "Stroke Occurrence" :> PyInt(1))),
     no_stroke |-> SleepBundle(_get_numeric_values(records, "Sleep Hours",
                                "Stroke Occurrence" :> PyInt(0)))]

(***************************************************************************)
(* Spec: the query catalog applied to a loaded dataset.  The records are   *)
(* values load_data produces: typed by _convert_to_appropriate_type, one   *)
(* value per column.  A record is an outcome (hypertension, heart disease, *)
(* stroke) joined with a profile of the other columns.                     *)
(***************************************************************************)
QueryHeader ==
    <<"Age", "Gender", "Hypertension", "Heart Disease", "Smoking Status",
      "Stroke Occurrence", "Residence Type", "Dietary Habits", "Sleep Hours",
      "Average Glucose Level">>

Outcome(hypertension, heart_disease, stroke) ==
    [f \in {"Hypertension", "Heart Disease", "Stroke Occurrence"} |->
        CASE f = "Hypertension" -> PyInt(hypertension)
          [] f = "Heart Disease" -> PyInt(heart_disease)
          [] f = "Stroke Occurrence" -> PyInt(stroke)]

Outcomes == {Outcome(1, 1, 1), Outcome(1, 0, 0), Outcome(0, 1, 1)}

Profile(gender, smoking, age, residence, diet, sleep, glucose) ==
    [f \in {"Gender", "Smoking Status", "Age", "Residence Type", "Dietary Habits",
            "Sleep Hours", "Average Glucose Level"} |->
        CASE f = "Gender" -> gender
          [] f = "Smoking Status" -> smoking
          [] f = "Age" -> age
          [] f = "Residence Type" -> residence
          [] f = "Dietary Habits" -> diet
          [] f = "Sleep Hours" -> sleep
          [] f = "Average Glucose Level" -> glucose]

Profiles ==
    {Profile(PyStr("Male"), PyStr("smokes"), PyInt(2), PyStr("Urban"),
             PyStr("Vegan"), PyInt(1), PyFloat(125)),
     Profile(PyStr("Female"), PyStr("Formerly smoked"), PyInt(3), PyStr("Rural"),
             PyStr("Keto"), PyInt(2), PyInt(1)),
     Profile(PyStr("Other"), PyStr("never smoked"), PyInt(1), PyStr("Urban"),
             PyNone, PyNone, PyInt(2)),
     Profile(PyInt(0), PyInt(0), PyFloat(125), PyStr("Rural"),
             PyStr("Vegan"), PyFloat(125), PyNone),
     Profile(PyStr("Male"), PyStr("smokes"), PyStr("Unknown"), PyStr("Urban"),
             PyStr("Keto"), PyNone, PyInt(1)),
     Profile(PyNone, PyFloat(0), PyNone, PyStr("Rural"),
             PyNone, PyStr("Unknown"), PyNone)}

QueryRecords == {outcome @@ profile : outcome \in Outcomes, profile \in Profiles}

\* feature_name as the caller passes it: columns with and without numeric
\* values, and a name that is not a column.
FeatureNames == {"Age", "Sleep Hours", "Gender", "Dietary Habits", "Nonexistent"}

Init ==
    /\ data \in SeqsUpTo(QueryRecords, MaxData)
    /\ header = QueryHeader
    /\ file = NoFile /\ pc = "idle" /\ lineno = 0 /\ numbers = <<>>
    /\ call = NoCall /\ ret = PyNone /\ saved = <<>>

Call_query_smokers_hypertension_stroke ==
    /\ call = NoCall
    /\ call' = [fn |-> "query_smokers_hypertension_stroke", arg |-> PyNone]
    /\ \E writer \in Writers :
        /\ saved' = Saved(query_smokers_hypertension_stroke(data), "smokers_hypertension_stroke.csv", writer)
        /\ ret' = Returned(query_smokers_hypertension_stroke(data), saved')
    /\ UNCHANGED <<file, pc, lineno, data, header, numbers>>

Call_query_heart_disease_stroke ==
    /\ call = NoCall
    /\ call' = [fn |-> "query_heart_disease_stroke", arg |-> PyNone]
    /\ \E writer \in Writers :
        /\ saved' = Saved(query_heart_disease_stroke(data), "heart_disease_stroke_stats.csv", writer)
        /\ ret' = Returned(query_heart_disease_stroke(data), saved')
    /\ UNCHANGED <<file, pc, lineno, data, header, numbers>>

Call_query_hypertension_gender_stroke ==
    /\ call = NoCall
    /\ \E order \in IterationOrders(Genders(data)) :
        /\ call' = [fn |-> "query_hypertension_gender_stroke", arg |-> PyNone]
        /\ \E writer \in Writers :
            /\ saved' = Saved(query_hypertension_gender_stroke(data, order), "hypertension_gender_stroke.csv", writer)
            /\ ret' = Returned(query_hypertension_gender_stroke(data, order), saved')
    /\ UNCHANGED <<file, pc, lineno, data, header, numbers>>

Call_query_smoking_stroke ==
    /\ call = NoCall
    /\ \E order \in IterationOrders(SmokingStatuses(data)) :
        /\ call' = [fn |-> "query_smoking_stroke", arg |-> PyNone]
        /\ \E writer \in Writers :
            /\ saved' = Saved(query_smoking_stroke(data, order), "smoking_stroke.csv", writer)
            /\ ret' = Returned(query_smoking_stroke(data, order), saved')
    /\ UNCHANGED <<file, pc, lineno, data, header, numbers>>

Call_query_residence_stroke ==
    /\ call = NoCall
    /\ call' = [fn |-> "query_residence_stroke", arg |-> PyNone]
    /\ \E writer \in Writers :
        /\ saved' = Saved(query_residence_stroke(data), "residence_stroke.csv", writer)
        /\ ret' = Returned(query_residence_stroke(data), saved')
    /\ UNCHANGED <<file, pc, lineno, data, header, numbers>>

Call_query_dietary_habits_stroke ==
    /\ call = NoCall
    /\ call' = [fn |-> "query_dietary_habits_stroke", arg |-> PyNone]
    /\ \E writer \in Writers :
        /\ saved' = Saved(query_dietary_habits_stroke(data), "dietary_habits_stroke.csv", writer)
        /\ ret' = Returned(query_dietary_habits_stroke(data), saved')
    /\ UNCHANGED <<file, pc, lineno, data, header, numbers>>

Call_query_hypertension_stroke_patients ==
    /\ call = NoCall
    /\ call' = [fn |-> "query_hypertension_stroke_patients", arg |-> PyNone]
    /\ \E writer \in Writers :
        /\ saved' = Saved(query_hypertension_stroke_patients(data), "hypertension_stroke_patients.csv", writer)
        /\ ret' = Returned(query_hypertension_stroke_patients(data), saved')
    /\ UNCHANGED <<file, pc, lineno, data, header, numbers>>

Call_query_hypertension_stroke_comparison ==
    /\ call = NoCall
    /\ call' = [fn |-> "query_hypertension_stroke_comparison", arg |-> PyNone]
    /\ \E writer \in Writers :
        /\ saved' = Saved(Combined(data), "hypertension_stroke_comparison.csv", writer)
        /\ ret' = Returned(query_hypertension_stroke_comparison(data), saved')
    /\ data' = SourcesAfterGrouping(data)
    /\ UNCHANGED <<file, pc, lineno, header, numbers>>

Call_query_heart_disease_stroke_patients ==
    /\ call = NoCall
    /\ call' = [fn |-> "query_heart_disease_stroke_patients", arg |-> PyNone]
    /\ \E writer \in Writers :
        /\ saved' = Saved(query_heart_disease_stroke_patients(data), "heart_disease_stroke_patients.csv", writer)
        /\ ret' = Returned(query_heart_disease_stroke_patients(data), saved')
    /\ UNCHANGED <<file, pc, lineno, data, header, numbers>>

Call_query_descriptive_statistics ==
    /\ call = NoCall
    /\ \E feature_name \in FeatureNames :
        /\ call' = [fn |-> "query_descriptive_statistics", arg |-> PyStr(feature_name)]
        /\ \E writer \in Writers :
            /\ saved' = DescriptiveSaves(data, feature_name, header, writer)
            /\ ret' = Returned(query_descriptive_statistics(data, feature_name, header), saved')
    /\ UNCHANGED <<file, pc, lineno, data, header, numbers>>

Call_query_average_sleep_hours_stroke ==
    /\ call = NoCall
    /\ call' = [fn |-> "query_average_sleep_hours_stroke", arg |-> PyNone]
    /\ \E writer \in Writers :
        /\ saved' = Saved(query_average_sleep_hours_stroke(data), "average_sleep_hours_stroke.csv", writer)
        /\ ret' = Returned(query_average_sleep_hours_stroke(data), saved')
    /\ UNCHANGED <<file, pc, lineno, data, header, numbers>>

\* The query has returned; its caller goes on with the same dataset.
CallReturns ==
    /\ call # NoCall
    /\ call' = NoCall
    /\ ret' = PyNone
    /\ saved' = <<>>
    /\ UNCHANGED <<file, pc, lineno, data, header, numbers>>

Next ==
    \/ Call_query_smokers_hypertension_stroke
    \/ Call_query_heart_disease_stroke
    \/ Call_query_hypertension_gender_stroke
    \/ Call_query_smoking_stroke
    \/ Call_query_residence_stroke
    \/ Call_query_dietary_habits_stroke
    \/ Call_query_hypertension_stroke_patients
    \/ Call_query_hypertension_stroke_comparison
    \/ Call_query_heart_disease_stroke_patients
    \/ Call_query_descriptive_statistics
    \/ Call_query_average_sleep_hours_stroke
    \/ CallReturns

Spec == Init /\ [][Next]_vars

(***************************************************************************)
(* save_results_csv: the text it writes.  Here a dict is the sequence of   *)
(* its (key, value) items in insertion order and a list the sequence of    *)
(* its elements, both tagged; a record of the dataset becomes a dict by    *)
(* the order of its columns.                                               *)
(***************************************************************************)
PyDict(items) == [t |-> "dict", v |-> items]
PyList(elements) == [t |-> "list", v |-> elements]

\* The strings of the exported samples, character by character.
Texts ==
    {<<"H","y","p","e","r","t","e","n","s","i","o","n">>,
     <<"S","t","r","o","k","e"," ","O","c","c","u","r","r","e","n","c","e">>,
     <<"A","g","e">>, <<"A","\"","B">>, <<"U","n","k","n","o","w","n">>,
     <<"c","o","u","n","t">>, <<"m","e","s","s","a","g","e">>,
     <<"N","o"," ","d","a","t","a">>, <<"m","o","d","a","l","_","a","g","e">>,
     <<"x",",","y">>, <<"x","\n","y">>,
     <<"E","r","r","o","r",":"," ","'","A","\"","B","'">>, <<>>}

\* The characters of a str.
Chars(s) == CHOOSE cs \in Texts : Join(cs) = s

\* ', '.join(parts)
RECURSIVE JoinWith(_, _)
JoinWith(sep, parts) ==
    IF parts = <<>> THEN <<>>
    ELSE IF Len(parts) = 1 THEN parts[1]
    ELSE parts[1] \o sep \o JoinWith(sep, Tail(parts))

\* str(value), character by character; the elements of a list are numbers.
RECURSIVE StrChars(_)
StrChars(x) ==
    CASE x.t = "None" -> <<"N","o","n","e">>
      [] x.t = "str" -> Chars(x.v)
      [] x.t = "chars" -> x.v
      [] x.t = "int" ->
            IF x.v < 0 THEN <<"-">> \o NatChars(0 - x.v) ELSE NatChars(x.v)
      [] x.t = "float" ->
            LET a == IF x.v < 0 THEN 0 - x.v ELSE x.v
            IN  (IF x.v < 0 THEN <<"-">> ELSE <<>>) \o NatChars(a \div 1000)
                    \o <<".">> \o FracChars(a % 1000)
      [] x.t = "list" ->
            <<"[">> \o JoinWith(<<",", " ">>, [i \in 1..Len(x.v) |-> StrChars(x.v[i])])
                \o <<"]">>

\* value_str.replace('"', '""')
RECURSIVE DoubleQuotes(_)
DoubleQuotes(cs) ==
    IF cs = <<>> THEN <<>>
    ELSE (IF Head(cs) = "\"" THEN <<"\"", "\"">> ELSE <<Head(cs)>>)
            \o DoubleQuotes(Tail(cs))

NeedsQuoting(cs) == \E i \in 1..Len(cs) : cs[i] \in {",", "\"", "\n"}

\* _format_csv_value applied to a value whose str() is value_str.
MutFormatText(value_str) ==
    IF NeedsQuoting(value_str)
    THEN <<"\"">> \o value_str \o <<"\"">>
    ELSE value_str
FormatText(value_str) ==
    IF NeedsQuoting(value_str)
    THEN <<"\"">> \o DoubleQuotes(value_str) \o <<"\"">>
    ELSE value_str

_format_csv_value(value) ==
    IF IsNone(value) THEN <<>> ELSE FormatText(StrChars(value))

\* The value of a dict item as it is handed to _format_csv_value: a nested
\* dict as ', '.join(f"{k}: {v}" ...), a nested list as str(value).
FlatValue(value) ==
    IF value.t = "dict"
    THEN [t |-> "chars",
          v |-> JoinWith(<<",", " ">>,
                    [i \in 1..Len(value.v) |->
                        StrChars(value.v[i][1]) \o <<":", " ">> \o StrChars(value.v[i][2])])]
    ELSE IF value.t = "list" THEN [t |-> "chars", v |-> StrChars(value)]
    ELSE value

\* The dict of a record, its keys in the order the columns first appear.
RECURSIVE Distinct(_)
Distinct(s) ==
    IF s = <<>> THEN <<>>
    ELSE LET init == SubSeq(s, 1, Len(s) - 1)
         IN  IF \E i \in 1..Len(init) : init[i] = s[Len(s)]
             THEN Distinct(init)
             ELSE Distinct(init) \o <<s[Len(s)]>>

AsDict(record, columns) ==
    PyDict([i \in 1..Len(Distinct(columns)) |->
                <<PyStr(Distinct(columns)[i]), record[Distinct(columns)[i]]>>])

\* row.get(header)
MutDictGet(dict, key) == dict.v[1][2]
DictGet(dict, key) ==
    IF \E i \in 1..Len(dict.v) : dict.v[i][1] = key
    THEN dict.v[CHOOSE i \in 1..Len(dict.v) : dict.v[i][1] = key][2]
    ELSE PyNone

\* The values save_results_csv hands to _format_csv_value, row by row: the
\* (key, value) rows of a dict, or the header row and the record rows of a
\* non-empty list of dicts; none for anything else.
CellValues(data_to_save) ==
    IF data_to_save.t = "dict"
    THEN [i \in 1..Len(data_to_save.v) |->
            <<data_to_save.v[i][1], FlatValue(data_to_save.v[i][2])>>]
    ELSE IF data_to_save.t = "list" /\ data_to_save.v # <<>>
    THEN LET headers == [i \in 1..Len(data_to_save.v[1].v) |-> data_to_save.v[1].v[i][1]]
         IN  <<headers>>
                \o [r \in 1..Len(data_to_save.v) |->
                        [h \in 1..Len(headers) |->
                            DictGet(data_to_save.v[r], headers[h])]]
    ELSE <<>>

\* The rows save_results_csv writes, each the sequence of its cells: under
\* "Metric,Value" for a dict, and str(data_to_save) alone for what is
\* neither a dict nor a non-empty list.
CsvRows(data_to_save) ==
    LET values == CellValues(data_to_save)
        formatted == [r \in 1..Len(values) |->
                        [c \in 1..Len(values[r]) |-> _format_csv_value(values[r][c])]]
    IN  IF data_to_save.t = "dict"
        THEN <<<<<<"M","e","t","r","i","c">>, <<"V","a","l","u","e">>>>>> \o formatted
        ELSE IF data_to_save.t = "list" /\ data_to_save.v # <<>>
        THEN formatted
        ELSE <<<<StrChars(data_to_save)>>>>

\* f.write(','.join(cells) + '\n') for every row: the text of the file.
RECURSIVE CsvText(_)
CsvText(rows) ==
    IF rows = <<>> THEN <<>>
    ELSE JoinWith(<<",">>, Head(rows)) \o <<"\n">> \o CsvText(Tail(rows))

\* The lines of a text file, without their line ends.
RECURSIVE SplitLines(_)
SplitLines(text) ==
    IF text = <<>> THEN <<>>
    ELSE IF \A i \in 1..Len(text) : text[i] # "\n" THEN <<text>>
    ELSE LET i == CHOOSE k \in 1..Len(text) :
                      text[k] = "\n" /\ \A m \in 1..(k - 1) : text[m] # "\n"
         IN  <<SubSeq(text, 1, i - 1)>> \o SplitLines(SubSeq(text, i + 1, Len(text)))

(***************************************************************************)
(* SpecExport: save_results_csv writes one result and load_data reads the  *)
(* written file back.  The result is a list of matches that                *)
(* query_hypertension_stroke_patients finds in a loaded dataset, or a      *)
(* mapping, an empty list or an error string.                              *)
(***************************************************************************)
ExportHeaders ==
    {<<"Hypertension", "Stroke Occurrence", "Age">>,
     <<"Hypertension", "Stroke Occurrence", "A\"B">>}

\* The datasets load_data returns under the header for data lines with these
\* cells, as it has stripped them.
LoadedDatasets(hdr) ==
    SeqsUpTo({MakeRecord(hdr, <<hypertension, <<"1">>, third>>) :
                hypertension \in {<<"1">>, <<"1",".","0">>, <<"0">>},
                third \in {<<"N","/","A">>, <<"2">>, <<"0",".","1","2","5">>,
                           <<"U","n","k","n","o","w","n">>, <<"A","\"","B">>}},
             MaxExport)

\* The matches of query_hypertension_stroke_patients, as the list of dicts
\* save_results_csv receives.
ListsOfMatches ==
    UNION {{LET patients == query_hypertension_stroke_patients(loaded)
            IN  PyList([i \in 1..Len(patients) |-> AsDict(patients[i], hdr)]) :
                loaded \in LoadedDatasets(hdr)} : hdr \in ExportHeaders}

\* Mappings of one item, and one of three.
Mappings ==
    {PyDict(<<<<key, value>>>>) :
        key \in {PyStr("count"), PyStr("A\"B")},
        value \in {PyNone, PyInt(2), PyFloat(125), PyStr("No data"), PyStr("x,y"),
                   PyStr("A\"B"), PyStr("x\ny"),
                   PyList(<<PyInt(2), PyFloat(3500)>>), PyList(<<>>),
                   PyDict(<<<<PyStr("count"), PyInt(0)>>,
                            <<PyStr("message"), PyStr("No data")>>>>),
                   PyDict(<<<<PyStr("A\"B"), PyNone>>,
                            <<PyStr("modal_age"), PyList(<<PyInt(2), PyInt(3)>>)>>>>)}}
    \cup {PyDict(<<<<PyStr("count"), PyInt(2)>>,
                   <<PyStr("modal_age"), PyList(<<PyInt(2), PyInt(3)>>)>>,
                   <<PyStr("message"), PyNone>>>>)}

ExportInputs ==
    [data_to_save : ListsOfMatches, filename : {"hypertension_stroke_patients.csv"}]
    \cup [data_to_save : Mappings, filename : {"heart_disease_stroke_stats.csv"}]
    \cup [data_to_save : {PyStr("Error: 'A\"B'")}, filename : {"descriptive_stats_A.csv"}]

InitExport ==
    /\ call \in {[fn |-> "save_results_csv", arg |-> input] : input \in ExportInputs}
    /\ pc = "save"
    /\ file = NoFile /\ lineno = 0 /\ data = <<>> /\ header = <<>>
    /\ numbers = <<>> /\ ret = PyNone /\ saved = <<>>

\* save_results_csv(data_to_save, filename): a failing export leaves no file
\* (open() raised) or the lines written before a write raised.
SaveResults ==
    /\ pc = "save"
    /\ LET rows == CsvRows(call.arg.data_to_save)
           lines == SplitLines(CsvText(rows))
       IN  \E writer \in Writers :
            /\ saved' = <<[rows |-> IF writer = "ok" THEN rows ELSE <<>>]
                            @@ Saved(call.arg.data_to_save, call.arg.filename, writer)[1]>>
            /\ IF writer = "ok"
               THEN file' = [exists |-> TRUE, lines |-> lines]
               ELSE file' \in {NoFile} \cup {[exists |-> TRUE, lines |-> SubSeq(lines, 1, n)] :
                                                n \in 0..(Len(lines) - 1)}
    /\ pc' = "saved"
    /\ UNCHANGED <<lineno, data, header, numbers, call, ret>>

\* load_data(filename) on what was written: data = [], header = [].
LoadWritten ==
    /\ pc = "saved"
    /\ call' = [fn |-> "load_data", arg |-> PyStr(saved[1].filename)]
    /\ pc' = "open"
    /\ data' = <<>>
    /\ header' = <<>>
    /\ lineno' = 0
    /\ UNCHANGED <<file, numbers, ret, saved>>

NextExport ==
    \/ SaveResults
    \/ LoadWritten
    \/ OpenFile
    \/ ReadHeader
    \/ ReadLine
    \/ ReturnData
    \/ ReadFails

SpecExport == InitExport /\ [][NextExport]_vars

(***************************************************************************)
(* SpecStats: one statistics primitive applied to a drawn sequence.  The    *)
(* numeric primitives are handed numbers only (their callers pass the      *)
(* output of _get_numeric_values); _calculate_mode also takes null entries.*)
(***************************************************************************)
StatItems == {PyInt(1), PyInt(2), PyInt(3), PyFloat(125), PyNone}
Percentiles == {-1, 0, 25, 50, 75, 100, 101}

NoNulls(s) == \A i \in 1..Len(s) : ~IsNone(s[i])

InitStats ==
    /\ numbers \in SeqsUpTo(StatItems, MaxLen)
    /\ file = NoFile /\ pc = "idle" /\ lineno = 0 /\ data = <<>> /\ header = <<>>
    /\ call = NoCall /\ ret = PyNone /\ saved = <<>>

Call_calculate_mean ==
    /\ call = NoCall
    /\ NoNulls(numbers)
    /\ call' = [fn |-> "_calculate_mean", arg |-> PyNone]
    /\ ret' = _calculate_mean(numbers)
    /\ UNCHANGED <<file, pc, lineno, data, header, numbers, saved>>

Call_calculate_median ==
    /\ call = NoCall
    /\ NoNulls(numbers)
    /\ call' = [fn |-> "_calculate_median", arg |-> PyNone]
    /\ ret' = _calculate_median(numbers)
    /\ UNCHANGED <<file, pc, lineno, data, header, numbers, saved>>

Call_calculate_mode ==
    /\ call = NoCall
    /\ call' = [fn |-> "_calculate_mode", arg |-> PyNone]
    /\ ret' = _calculate_mode(numbers)
    /\ UNCHANGED <<file, pc, lineno, data, header, numbers, saved>>

Call_calculate_std_dev ==
    /\ call = NoCall
    /\ NoNulls(numbers)
    /\ call' = [fn |-> "_calculate_std_dev", arg |-> PyNone]
    /\ ret' = _calculate_std_dev(numbers)
    /\ UNCHANGED <<file, pc, lineno, data, header, numbers, saved>>

Call_calculate_percentile ==
    /\ call = NoCall
    /\ NoNulls(numbers)
    /\ \E p \in Percentiles :
        /\ call' = [fn |-> "_calculate_percentile", arg |-> PyInt(p)]
        /\ ret' = _calculate_percentile(numbers, p)
    /\ UNCHANGED <<file, pc, lineno, data, header, numbers, saved>>

NextStats ==
    \/ Call_calculate_mean
    \/ Call_calculate_median
    \/ Call_calculate_mode
    \/ Call_calculate_std_dev
    \/ Call_calculate_percentile

SpecStats == InitStats /\ [][NextStats]_vars

(***************************************************************************)
(* Claims about the statistics primitives (checked under SpecStats).       *)
(***************************************************************************)
\* Two results are equal: both None, or numbers of the same value.
SameResult(a, b) == PyEq(a, b)

\* C3: for every numeric sequence S, the empty one included,
\* _calculate_percentile(S, 50) equals _calculate_median(S).
Thm_C3 ==
    /\ (call.fn = "_calculate_percentile" /\ call.arg = PyInt(50))
          => SameResult(ret, _calculate_median(numbers))
    /\ call.fn = "_calculate_median"
          => SameResult(ret, _calculate_percentile(numbers, 50))

\* An even-length sequence with a non-integer element: the two central
\* elements 1 and 2 are averaged.
Wit_C3 ==
    /\ call.fn = "_calculate_percentile" /\ call.arg = PyInt(50)
    /\ numbers = <<PyInt(2), PyFloat(125), PyInt(3), PyInt(1)>>
    /\ ret = PyFloat(1500)

\* The number of non-null entries of numbers equal to x.
Occurrences(x) ==
    Cardinality({k \in 1..Len(numbers) : ~IsNone(numbers[k]) /\ PyEq(numbers[k], x)})
IsMostFrequent(x) ==
    \A k \in 1..Len(numbers) :
        ~IsNone(numbers[k]) => Occurrences(numbers[k]) <= Occurrences(x)

\* C4: _calculate_mode(S) is the ascending, duplicate-free list of exactly
\* the values whose number of occurrences among the non-null entries of S is
\* the maximum; it is empty when S has no non-null entry, and [1, 2] for
\* S = [1, 1, 2, 2, 3].
Thm_C4 ==
    call.fn = "_calculate_mode" =>
        /\ \A i, j \in 1..Len(ret) : i < j => Milli(ret[i]) < Milli(ret[j])
        /\ \A i \in 1..Len(ret) :
              /\ \E k \in 1..Len(numbers) : numbers[k] = ret[i]
              /\ IsMostFrequent(ret[i])
        /\ \A k \in 1..Len(numbers) :
              (~IsNone(numbers[k]) /\ IsMostFrequent(numbers[k]))
                 => \E i \in 1..Len(ret) : PyEq(ret[i], numbers[k])
        /\ (\A k \in 1..Len(numbers) : IsNone(numbers[k])) => ret = <<>>
        /\ numbers = <<PyInt(1), PyInt(1), PyInt(2), PyInt(2), PyInt(3)>>
              => ret = <<PyInt(1), PyInt(2)>>

Wit_C4 ==
    /\ call.fn = "_calculate_mode"
    /\ numbers = <<PyInt(1), PyInt(1), PyInt(2), PyInt(2), PyInt(3)>>
    /\ ret = <<PyInt(1), PyInt(2)>>

\* C5 as stated: for every non-empty numeric S,
\* min(S) <= percentile(S, 25) <= median(S) <= percentile(S, 75) <= max(S),
\* with min and max the unrounded extremes.
CE_C5 ==
    (call.fn = "_calculate_percentile" /\ numbers # <<>>) =>
        /\ call.arg = PyInt(25) =>
              /\ Milli(PyMin(numbers)) <= Milli(ret)
              /\ Milli(ret) <= Milli(_calculate_median(numbers))
        /\ call.arg = PyInt(75) =>
              /\ Milli(_calculate_median(numbers)) <= Milli(ret)
              /\ Milli(ret) <= Milli(PyMax(numbers))

\* C5 (amended): for every non-empty numeric S,
\* round(min(S), 2) <= percentile(S, 25) <= median(S) <= percentile(S, 75)
\* <= round(max(S), 2): the 'min', '25%', '50% (median)', '75%', 'max'
\* values query_descriptive_statistics computes are non-decreasing.
Thm_C5 ==
    (call.fn = "_calculate_percentile" /\ numbers # <<>>) =>
        /\ call.arg = PyInt(25) =>
              /\ Milli(PyRound2(PyMin(numbers))) <= Milli(ret)
              /\ Milli(ret) <= Milli(_calculate_median(numbers))
        /\ call.arg = PyInt(75) =>
              /\ Milli(_calculate_median(numbers)) <= Milli(ret)
              /\ Milli(ret) <= Milli(PyRound2(PyMax(numbers)))

\* The 75th percentile of [0.125, 2, 1, 3] lies strictly between the median
\* and the maximum.
Wit_C5 ==
    /\ call.fn = "_calculate_percentile" /\ call.arg = PyInt(75)
    /\ numbers = <<PyFloat(125), PyInt(2), PyInt(1), PyInt(3)>>
    /\ Milli(_calculate_median(numbers)) < Milli(ret)
    /\ Milli(ret) < Milli(PyMax(numbers))

(***************************************************************************)
(* Claims about the filter engine (checked under SpecFilter).              *)
(***************************************************************************)
\* The i-th smallest element of a set of indices.
NthOf(S, i) == CHOOSE k \in S : Cardinality({m \in S : m <= k}) = i

\* Every (field, value) pair of the conditions equals the record's value.
SatisfiesAll(record, conditions) ==
    \A key \in DOMAIN conditions :
        LET value == IF key \in DOMAIN record THEN record[key] ELSE PyNone
        IN  PyEq(value, conditions[key])

\* C1: with a non-empty condition set, _filter_data returns exactly the
\* records satisfying every pair, in their original order and each once;
\* a record holding the string "1" does not satisfy a pair requiring the
\* integer 1.
Thm_C1 ==
    (call.fn = "_filter_data" /\ ~NoConditions(call.arg.conditions)) =>
        LET conditions == call.arg.conditions
            kept == {i \in 1..Len(data) : SatisfiesAll(data[i], conditions)}
        IN  /\ Len(ret) = Cardinality(kept)
            /\ \A j \in 1..Len(ret) : ret[j] = data[NthOf(kept, j)]
            /\ \A j \in 1..Len(ret) : \A key \in DOMAIN conditions :
                  conditions[key] = PyInt(1) => Get(ret[j], key) # PyStr("1")

\* Two pairs; the second of three records fails one of them, the first
\* matches with the float 1.0 and the third with the integer 1.
Wit_C1 ==
    /\ call.fn = "_filter_data"
    /\ call.arg.conditions
          = ("Hypertension" :> PyInt(1)) @@ ("Stroke Occurrence" :> PyInt(1))
    /\ Len(data) = 3
    /\ data[1] = FilterRecord(PyFloat(1000), PyInt(1), PyNone)
    /\ data[2] = FilterRecord(PyStr("1"), PyInt(1), PyInt(2))
    /\ data[3] = FilterRecord(PyInt(1), PyInt(1), PyInt(2))
    /\ ret = <<data[1], data[3]>>

\* C2: _get_numeric_values returns, in record order, the value at the
\* feature of every record that passes the filter and whose value there is
\* an int or a float, and nothing else.
Thm_C2 ==
    call.fn = "_get_numeric_values" =>
        LET conditions == call.arg.conditions
            feature == call.arg.feature
            passes(i) == NoConditions(conditions) \/ SatisfiesAll(data[i], conditions)
            kept == {i \in 1..Len(data) :
                        /\ passes(i)
                        /\ feature \in DOMAIN data[i]
                        /\ data[i][feature].t \in {"int", "float"}}
        IN  /\ Len(ret) = Cardinality(kept)
            /\ \A j \in 1..Len(ret) : ret[j] = data[NthOf(kept, j)][feature]

\* A missing, a numeric and an "Unknown" age among the passing records:
\* only the number is returned.
Wit_C2 ==
    /\ call.fn = "_get_numeric_values"
    /\ call.arg.feature = "Age"
    /\ call.arg.conditions
          = ("Hypertension" :> PyInt(1)) @@ ("Stroke Occurrence" :> PyInt(1))
    /\ Len(data) = 3
    /\ data[1] = FilterRecord(PyInt(1), PyInt(1), PyNone)
    /\ data[2] = FilterRecord(PyInt(1), PyInt(1), PyInt(2))
    /\ data[3] = FilterRecord(PyInt(1), PyInt(1), PyStr("Unknown"))
    /\ ret = <<PyInt(2)>>

(***************************************************************************)
(* Claims about the loader (checked under SpecConvert and SpecLoad).       *)
(***************************************************************************)
\* The text between the first and the last character that is no whitespace.
Trimmed(raw) ==
    LET core == {i \in 1..Len(raw) : ~IsSpace(raw[i])}
    IN  IF core = {} THEN <<>>
        ELSE SubSeq(raw, CHOOSE i \in core : \A k \in core : i <= k,
                         CHOOSE i \in core : \A k \in core : k <= i)

\* C7: after trimming, "N/A" and the empty string give None, "Unknown"
\* gives the string "Unknown", otherwise a text int() accepts gives that
\* integer, else one float() accepts gives that float, else the trimmed
\* text itself.
Thm_C7 ==
    call.fn = "_convert_to_appropriate_type" =>
        LET trimmed == Trimmed(call.arg)
            text == Join(trimmed)
        IN  /\ text \in {"N/A", ""} => ret = PyNone
            /\ text = "Unknown" => ret = PyStr("Unknown")
            /\ text \notin {"N/A", "", "Unknown"} =>
                  /\ IntOk(trimmed) => ret = PyInt(IntVal(trimmed))
                  /\ (~IntOk(trimmed) /\ FloatOk(trimmed))
                        => ret = PyFloat(FloatVal(trimmed))
                  /\ (~IntOk(trimmed) /\ ~FloatOk(trimmed)) => ret = PyStr(text)
            /\ call.arg = <<" ", "1", "5">> => ret = PyInt(15)
            /\ call.arg = <<"-", ".", "5">> => ret = PyFloat(-500)
            /\ call.arg = <<"1", ".", " ">> => ret = PyFloat(1000)
            /\ call.arg = <<"1", " ", "5">> => ret = PyStr("1 5")

\* A string of spaces only is missing; " Unknown " stays the string.
Wit_C7 ==
    /\ call.fn = "_convert_to_appropriate_type"
    /\ \/ call.arg = <<" ", " ">> /\ ret = PyNone
       \/ call.arg = <<" ","U","n","k","n","o","w","n"," ">> /\ ret = PyStr("Unknown")

NonBlank(line) == \E i \in 1..Len(line) : ~IsSpace(line[i])
Commas(line) == Cardinality({i \in 1..Len(line) : line[i] = ","})

\* The data lines read so far that load_data must have accepted: non-blank,
\* with as many comma-separated values as the header line.
AcceptedLines ==
    {i \in 2..(lineno - 1) :
        NonBlank(file.lines[i]) /\ Commas(file.lines[i]) = Commas(file.lines[1])}

ExampleFile == <<Line.AgeGender, Line.Male30, Line.FemaleNA, Line.Short>>
ExampleRecords ==
    << ("Age" :> PyInt(30)) @@ ("Gender" :> PyStr("Male")),
       ("Age" :> PyNone) @@ ("Gender" :> PyStr("Female")) >>

\* C6 as stated: a record is built for a non-blank data line iff its value
\* count equals the header length, in file order, never partially, and each
\* record maps every header field to the typed value of the same column.
CE_C6 ==
    pc \in {"lines", "returned"} =>
        /\ Len(data) = Cardinality(AcceptedLines)
        /\ \A j \in 1..Len(data) :
              LET cells == Split(file.lines[NthOf(AcceptedLines, j)])
              IN  /\ DOMAIN data[j] = {header[c] : c \in 1..Len(header)}
                  /\ \A c \in 1..Len(header) :
                        data[j][header[c]] = _convert_to_appropriate_type(cells[c])
        /\ (file.lines = ExampleFile /\ pc = "returned") => data = ExampleRecords

\* C6 (amended): as above, each record mapping every header field to the
\* typed value of the last column that bears that name (the same column
\* when the header names are distinct).
Thm_C6 ==
    pc \in {"lines", "returned"} =>
        /\ Len(data) = Cardinality(AcceptedLines)
        /\ \A j \in 1..Len(data) :
              LET cells == Split(file.lines[NthOf(AcceptedLines, j)])
              IN  /\ DOMAIN data[j] = {header[c] : c \in 1..Len(header)}
                  /\ \A c \in 1..Len(header) :
                        (\A k \in (c + 1)..Len(header) : header[k] # header[c])
                           => data[j][header[c]] = _convert_to_appropriate_type(cells[c])
        /\ (file.lines = ExampleFile /\ pc = "returned") => data = ExampleRecords

Wit_C6 ==
    /\ pc = "returned"
    /\ file.lines = ExampleFile
    /\ ret = [kind |-> "return", data |-> ExampleRecords, header |-> <<"Age", "Gender">>]

(***************************************************************************)
(* Claims about the query catalog (checked under Spec).                    *)
(***************************************************************************)
IsErrorString(r) == DOMAIN r = {"t", "v"} /\ r.t = "str"

\* C8: query_descriptive_statistics with a feature_name that is not in the
\* header returns an error-message value (no exception), and that value is
\* exported: save_results_csv is invoked with it, as on the other paths.
CE_C8 ==
    (call.fn = "query_descriptive_statistics" /\ ~InHeader(call.arg.v, header))
        => /\ IsErrorString(ret)
           /\ Len(saved) = 1
           /\ saved[1].data_to_save = ret

\* The "no data" shape: a message, and no statistic fields.
IsNoDataShape(r) == "message" \in DOMAIN r /\ DOMAIN r \subseteq {"message", "count"}

GroupAges(field, value, stroke) ==
    _get_numeric_values(data, "Age",
        (field :> value) @@ ("Stroke Occurrence" :> stroke)
            @@ (IF field = "Gender" THEN "Hypertension" :> PyInt(1) ELSE <<>>))

SleepHours(stroke) ==
    _get_numeric_values(data, "Sleep Hours", "Stroke Occurrence" :> PyInt(stroke))

\* The bundle whose every statistic is absent.
EmptySleepBundle ==
    [count |-> PyInt(0), mean |-> PyNone, median |-> PyNone, mode |-> <<>>,
     std_dev |-> PyNone, min |-> PyNone, max |-> PyNone]
    @@ ("25%" :> PyNone) @@ ("75%" :> PyNone)

\* Every analysis but the sleep-hours one: an empty driving sequence gives
\* the result (or the group's entry) the "no data"/message shape.
NoDataPolicy ==
    /\ (call.fn = "query_smokers_hypertension_stroke"
            /\ SmokersHypertensionStrokeAges(data) = <<>>)
        => IsNoDataShape(ret)
    /\ (call.fn = "query_heart_disease_stroke"
            /\ _get_numeric_values(data, "Age", HeartDiseaseStroke) = <<>>)
        => IsNoDataShape(ret)
    /\ call.fn = "query_hypertension_gender_stroke"
        => \A i \in 1..Len(data), s \in 1..2 :
            LET gender == Get(data[i], "Gender")
            IN  (GenderKept(gender)
                    /\ GroupAges("Gender", gender, StrokeLabels[s][1]) = <<>>)
                => IsNoDataShape(ret[PyFormat(gender) \o "_Hypertension_"
                                        \o StrokeLabels[s][2]])
    /\ call.fn = "query_smoking_stroke"
        => \A i \in 1..Len(data), s \in 1..2 :
            LET status == Get(data[i], "Smoking Status")
            IN  (Truthy(status)
                    /\ GroupAges("Smoking Status", status, StrokeLabels[s][1]) = <<>>)
                => IsNoDataShape(ret[PyFormat(status) \o "_" \o StrokeLabels[s][2]])
    /\ call.fn = "query_residence_stroke"
        => \A residence \in {"Urban", "Rural"} :
            GroupAges("Residence Type", PyStr(residence), PyInt(1)) = <<>>
                => IsNoDataShape(ret[residence])
    /\ (call.fn = "query_descriptive_statistics"
            /\ _get_numeric_values(data, call.arg.v, PyNone) = <<>>)
        => IsErrorString(ret)

GendersPresent ==
    {Get(data[i], "Gender") : i \in 1..Len(data)} \ {PyNone, PyStr("Other")}

HypertensionGenderMatches(gender, stroke) ==
    _filter_data(data, ("Hypertension" :> PyInt(1)) @@ ("Stroke Occurrence" :> stroke)
                           @@ ("Gender" :> gender))

\* C10: query_hypertension_gender_stroke returns a mapping whose keys are
\* exactly "{g}_Hypertension_Stroke" and "{g}_Hypertension_NoStroke" for
\* every gender value g present other than "Other"; a group without matching
\* records maps to {count: 0, message: "No data"}, a group with matches to an
\* age bundle of count > 0.
CE_C10 ==
    call.fn = "query_hypertension_gender_stroke"
        => /\ DOMAIN ret = {PyFormat(g) \o "_Hypertension_" \o StrokeLabels[s][2] :
                                g \in GendersPresent, s \in 1..2}
           /\ \A g \in GendersPresent, s \in 1..2 :
                LET key == PyFormat(g) \o "_Hypertension_" \o StrokeLabels[s][2]
                IN  key \in DOMAIN ret
                      => IF HypertensionGenderMatches(g, StrokeLabels[s][1]) = <<>>
                         THEN ret[key] = NoData
                         ELSE /\ "average_age" \in DOMAIN ret[key]
                              /\ ret[key].count.v > 0

\* The Smoking Status values present in the dataset, missing ones apart.
StatusesPresent ==
    {Get(data[i], "Smoking Status") : i \in 1..Len(data)} \ {PyNone}

\* C11: query_smoking_stroke covers every distinct non-missing Smoking
\* Status value v present, whatever its type (0 and 0.0 included): the result
\* has both keys "{v}_Stroke" and "{v}_NoStroke", and distinct values never
\* share a key.
CE_C11 ==
    call.fn = "query_smoking_stroke"
        => /\ \A v \in StatusesPresent, s \in 1..2 :
                (PyFormat(v) \o "_" \o StrokeLabels[s][2]) \in DOMAIN ret
           /\ \A v, w \in StatusesPresent : v # w => PyFormat(v) # PyFormat(w)

\* The values the called query returns when its export succeeds.
QueryValues ==
    CASE call.fn = "query_smokers_hypertension_stroke" ->
            {query_smokers_hypertension_stroke(data)}
      [] call.fn = "query_heart_disease_stroke" -> {query_heart_disease_stroke(data)}
      [] call.fn = "query_hypertension_gender_stroke" ->
            {query_hypertension_gender_stroke(data, order) :
                order \in IterationOrders(Genders(data))}
      [] call.fn = "query_smoking_stroke" ->
            {query_smoking_stroke(data, order) :
                order \in IterationOrders(SmokingStatuses(data))}
      [] call.fn = "query_residence_stroke" -> {query_residence_stroke(data)}
      [] call.fn = "query_dietary_habits_stroke" -> {query_dietary_habits_stroke(data)}
      [] call.fn = "query_hypertension_stroke_patients" ->
            {query_hypertension_stroke_patients(data)}
      [] call.fn = "query_hypertension_stroke_comparison" ->
            {query_hypertension_stroke_comparison(data)}
      [] call.fn = "query_heart_disease_stroke_patients" ->
            {query_heart_disease_stroke_patients(data)}
      [] call.fn = "query_descriptive_statistics" ->
            {query_descriptive_statistics(data, call.arg.v, header)}
      [] call.fn = "query_average_sleep_hours_stroke" ->
            {query_average_sleep_hours_stroke(data)}

\* C12: no failure while writing escapes save_results_csv, and a query
\* returns the same value whether its export succeeds or fails: whatever the
\* writer did, nothing was raised and the value returned is the one the query
\* returns with a succeeding writer.
Thm_C12 ==
    call # NoCall
        => /\ \A i \in 1..Len(saved) : ~saved[i].raised
           /\ ret \in QueryValues

\* A query whose result is a bundle has returned after its export failed.
Wit_C12 ==
    /\ call.fn = "query_heart_disease_stroke"
    /\ Len(saved) = 1
    /\ saved[1].printed = "Error saving file"
    /\ "average_glucose_level" \in DOMAIN ret

\* C13: a call of a query function leaves the dataset as it was loaded: the
\* same records in the same order with the same fields and values, and the
\* same header; so it is after any sequence of calls.
Thm_C13 == [][data' = data /\ header' = header]_vars

\* query_hypertension_stroke_comparison has exported rows labelled with
\* 'Group', and no record of the dataset has the field.
Wit_C13 ==
    /\ call.fn = "query_hypertension_stroke_comparison"
    /\ Len(saved) = 1
    /\ Len(saved[1].data_to_save) = 2
    /\ \A i \in 1..2 : "Group" \in DOMAIN saved[1].data_to_save[i]
    /\ \A i \in 1..Len(data) : "Group" \notin DOMAIN data[i]

(***************************************************************************)
(* Further claims about load_data (checked under SpecLoad).                *)
(***************************************************************************)
\* C15: load_data returns no partial result: a missing file raises
\* FileNotFoundError with the path in its message, any other failure raises
\* an exception wrapping the original one, neither returns a (records,
\* header) pair, and a pair is returned only once every line is processed.
Thm_C15 ==
    /\ pc = "raised"
        => /\ ret.kind = "raise"
           /\ DOMAIN ret = {"kind", "exc", "message"}
           /\ ~file.exists
                => /\ ret.exc = "FileNotFoundError"
                   /\ ret.message = "Dataset file not found at: " \o FILEPATH
           /\ file.exists
                => /\ ret.exc = "Exception"
                   /\ \E e \in ReadErrors :
                        ret.message = "An error occurred while reading the dataset: " \o e
    /\ pc = "returned"
        => /\ file.exists
           /\ ret.kind = "return"
           /\ lineno = Len(file.lines) + 1
           /\ Len(ret.data) = Cardinality(AcceptedLines)
    /\ pc \notin {"raised", "returned"} => ret = PyNone

\* Reading failed after a record had been built.
Wit_C15 ==
    /\ pc = "raised"
    /\ ret.exc = "Exception"
    /\ Len(data) > 0
    /\ lineno <= Len(file.lines)

\* C16: load_data on an empty file (no first line) returns ([], []) and
\* raises nothing of its own: when the reading itself does not fail, the call
\* ends by returning the empty pair.
Thm_C16 ==
    (file.exists /\ file.lines = <<>>)
        => /\ pc = "returned" => ret = [kind |-> "return", data |-> <<>>, header |-> <<>>]
           /\ pc = "raised" => ret.exc = "Exception"
           /\ pc \notin {"open", "header", "returned", "raised"} => FALSE

\* The empty file has been read to its result.
Wit_C16 ==
    /\ file.exists
    /\ file.lines = <<>>
    /\ pc = "returned"
    /\ ret.data = <<>>
    /\ ret.header = <<>>

(***************************************************************************)
(* Further claims about the filter engine (checked under SpecFilter).      *)
(***************************************************************************)
\* C17: _filter_data with an empty or absent condition set returns all the
\* input records: the same records in the same order with the same field
\* values, the input being as it was before the call.
Thm_C17 ==
    (call.fn = "_filter_data" /\ NoConditions(call.arg.conditions))
        => /\ Len(ret) = Len(data)
           /\ \A i \in 1..Len(data) :
                /\ DOMAIN ret[i] = DOMAIN data[i]
                /\ \A key \in DOMAIN data[i] : ret[i][key] = data[i][key]

\* Three records, of which a non-empty condition set would drop one, filtered
\* with the absent condition set.
Wit_C17 ==
    /\ call.fn = "_filter_data"
    /\ call.arg.conditions = PyNone
    /\ Len(data) = 3
    /\ Get(data[1], "Hypertension") = PyInt(1)
    /\ Get(data[2], "Hypertension") = PyStr("1")
    /\ Len(ret) = 3

(***************************************************************************)
(* Further claims about the statistics primitives (checked under SpecStats)*)
(***************************************************************************)
\* C19: on an empty sequence _calculate_mean, _calculate_median,
\* _calculate_std_dev and _calculate_percentile return None;
\* _calculate_std_dev also for one element, _calculate_percentile also for a
\* percentile outside [0, 100]; on every other input each returns a number.
Thm_C19 ==
    /\ call.fn \in {"_calculate_mean", "_calculate_median"}
        => IF numbers = <<>> THEN ret = PyNone ELSE IsNumber(ret)
    /\ call.fn = "_calculate_std_dev"
        => IF Len(numbers) < 2 THEN ret = PyNone ELSE IsNumber(ret)
    /\ call.fn = "_calculate_percentile"
        => IF numbers = <<>> \/ call.arg.v < 0 \/ call.arg.v > 100
           THEN ret = PyNone
           ELSE IsNumber(ret)

\* The standard deviation of a one-element sequence has been asked for.
Wit_C19 ==
    /\ call.fn = "_calculate_std_dev"
    /\ Len(numbers) = 1
    /\ ret = PyNone

(***************************************************************************)
(* Further claims about the query catalog (checked under Spec).            *)
(***************************************************************************)
\* The records of the dataset with Hypertension = 1 and the given Stroke
\* Occurrence, in dataset order.
HypertensionWithStroke(stroke) ==
    LET kept == {i \in 1..Len(data) :
                    /\ PyEq(Get(data[i], "Hypertension"), PyInt(1))
                    /\ PyEq(Get(data[i], "Stroke Occurrence"), PyInt(stroke))}
    IN  [j \in 1..Cardinality(kept) |-> data[NthOf(kept, j)]]

\* The row is the source record with the Group label added.
Labelled(row, source, group) ==
    /\ DOMAIN row = DOMAIN source \cup {"Group"}
    /\ row["Group"] = PyStr(group)
    /\ \A key \in DOMAIN source : row[key] = source[key]

\* C20: query_hypertension_stroke_comparison returns the records with
\* Hypertension = 1 and Stroke Occurrence = 1 under
\* 'hypertension_led_to_stroke' and those with Hypertension = 1 and Stroke
\* Occurrence = 0 under 'hypertension_did_not_lead_to_stroke'; the lists
\* share no record and carry no 'Group' field; what it exports is the first
\* list followed by the second, each record labelled Group = 'Stroke' or
\* 'No Stroke' and otherwise equal to its source.
Thm_C20 ==
    call.fn = "query_hypertension_stroke_comparison"
        => LET led == ret.hypertension_led_to_stroke
               not_led == ret.hypertension_did_not_lead_to_stroke
               rows == saved[1].data_to_save
           IN  /\ DOMAIN ret = {"hypertension_led_to_stroke",
                                "hypertension_did_not_lead_to_stroke"}
               /\ led = HypertensionWithStroke(1)
               /\ not_led = HypertensionWithStroke(0)
               /\ \A i \in 1..Len(led), j \in 1..Len(not_led) : led[i] # not_led[j]
               /\ \A i \in 1..Len(led) : "Group" \notin DOMAIN led[i]
               /\ \A j \in 1..Len(not_led) : "Group" \notin DOMAIN not_led[j]
               /\ Len(saved) = 1
               /\ Len(rows) = Len(led) + Len(not_led)
               /\ \A i \in 1..Len(led) : Labelled(rows[i], led[i], "Stroke")
               /\ \A j \in 1..Len(not_led) :
                    Labelled(rows[Len(led) + j], not_led[j], "No Stroke")

\* The comparison has run on a dataset whose first record has hypertension
\* without a stroke and whose second has both.
Wit_C20 ==
    /\ call.fn = "query_hypertension_stroke_comparison"
    /\ Len(data) = 2
    /\ Len(ret.hypertension_led_to_stroke) = 1
    /\ Len(ret.hypertension_did_not_lead_to_stroke) = 1
    /\ ret.hypertension_led_to_stroke[1] = data[2]
    /\ saved[1].data_to_save[1]["Group"] = PyStr("Stroke")

\* The export reported success and load_data returned from the written file.
Reloaded ==
    /\ pc = "returned"
    /\ call.fn = "load_data"
    /\ saved # <<>>
    /\ saved[1].printed = "Results successfully saved to"
    /\ ret.kind = "return"

\* The field names of a list of matches, in the order of its first record.
KeysOf(R) ==
    IF R.v = <<>> THEN <<>>
    ELSE [i \in 1..Len(R.v[1].v) |-> R.v[1].v[i][1].v]

HasQuote(name) == \E i \in 1..Len(Chars(name)) : Chars(name)[i] = "\""

\* As many records, the same header, and every numeric field of every record
\* of R with the same value in the record read back.
RoundTrip(R, loaded) ==
    /\ Len(loaded.data) = Len(R.v)
    /\ loaded.header = KeysOf(R)
    /\ \A i \in 1..Len(R.v) : \A k \in 1..Len(R.v[i].v) :
          IsNumber(R.v[i].v[k][2]) =>
              /\ i <= Len(loaded.data)
              /\ R.v[i].v[k][1].v \in DOMAIN loaded.data[i]
              /\ loaded.data[i][R.v[i].v[k][1].v] = R.v[i].v[k][2]

\* C14 as stated: every list of matches R produced from loaded records,
\* exported with save_results_csv and read back with load_data, gives as
\* many records under the same header with every numeric field unchanged.
CE_C14 ==
    (Reloaded /\ saved[1].data_to_save.t = "list")
        => RoundTrip(saved[1].data_to_save, ret)

\* C14 amended: a non-empty list of matches R whose field names contain no
\* double quote, exported with save_results_csv and read back with
\* load_data, gives as many records under the same header with every
\* numeric field of every record unchanged.
Thm_C14 ==
    (/\ Reloaded
     /\ saved[1].data_to_save.t = "list"
     /\ saved[1].data_to_save.v # <<>>
     /\ \A i \in 1..Len(KeysOf(saved[1].data_to_save)) :
            ~HasQuote(KeysOf(saved[1].data_to_save)[i]))
        => RoundTrip(saved[1].data_to_save, ret)

\* Two matches with an int, a float and an absent Age were exported and read
\* back.
Wit_C14 ==
    /\ Reloaded
    /\ saved[1].data_to_save.t = "list"
    /\ Len(saved[1].data_to_save.v) = 2
    /\ KeysOf(saved[1].data_to_save) = <<"Hypertension", "Stroke Occurrence", "Age">>
    /\ saved[1].data_to_save.v[1].v[1][2] = PyFloat(1000)
    /\ saved[1].data_to_save.v[1].v[3][2] = PyFloat(125)
    /\ saved[1].data_to_save.v[2].v[3][2] = PyNone
    /\ Len(ret.data) = 2
    /\ ret.data[1]["Age"] = PyFloat(125)

HasSpecial(text) == \E i \in 1..Len(text) : text[i] = "," \/ text[i] = "\"" \/ text[i] = "\n"

\* The text whose double quotes, all of them in pairs, stand for one each.
RECURSIVE Undoubled(_)
Undoubled(cs) ==
    IF cs = <<>> THEN <<>>
    ELSE IF Head(cs) # "\"" THEN <<Head(cs)>> \o Undoubled(Tail(cs))
    ELSE IF Len(cs) >= 2 /\ cs[2] = "\"" THEN <<"\"">> \o Undoubled(Tail(Tail(cs)))
    ELSE <<"unpaired">>

\* The cell is the value as C18 has it written.
CellWritten(value, cell) ==
    IF IsNone(value) THEN cell = <<>>
    ELSE IF HasSpecial(StrChars(value))
    THEN /\ Len(cell) >= 2
         /\ cell[1] = "\""
         /\ cell[Len(cell)] = "\""
         /\ Undoubled(SubSeq(cell, 2, Len(cell) - 1)) = StrChars(value)
    ELSE cell = StrChars(value)

\* The rows written for the values: all of them for a list of records, the
\* ones under "Metric,Value" for a mapping.
ValueRows(written) ==
    IF written.data_to_save.t = "dict" THEN Tail(written.rows) ELSE written.rows

\* C18: in a file save_results_csv wrote for a mapping or a list of records,
\* a cell whose text contains a comma, a double quote or a newline is
\* enclosed in double quotes with its double quotes doubled, any other cell
\* is the text itself, and None is an empty cell: header cells, record
\* cells, and the metric and value cells of a mapping (nested mappings and
\* lists flattened to a string first).
Thm_C18 ==
    (/\ saved # <<>>
     /\ saved[1].printed = "Results successfully saved to"
     /\ CellValues(saved[1].data_to_save) # <<>>)
        => /\ Len(ValueRows(saved[1])) = Len(CellValues(saved[1].data_to_save))
           /\ \A r \in 1..Len(CellValues(saved[1].data_to_save)) :
                /\ Len(ValueRows(saved[1])[r]) = Len(CellValues(saved[1].data_to_save)[r])
                /\ \A c \in 1..Len(CellValues(saved[1].data_to_save)[r]) :
                      CellWritten(CellValues(saved[1].data_to_save)[r][c],
                                  ValueRows(saved[1])[r][c])

\* A mapping with the metric A"B and the value x,y was written.
Wit_C18 ==
    /\ pc = "saved"
    /\ saved # <<>>
    /\ saved[1].printed = "Results successfully saved to"
    /\ saved[1].data_to_save = PyDict(<<<<PyStr("A\"B"), PyStr("x,y")>>>>)
    /\ saved[1].rows[2] = <<<<"\"","A","\"","\"","B","\"">>, <<"\"","x",",","y","\"">>>>
    /\ file.lines = <<<<"M","e","t","r","i","c",",","V","a","l","u","e">>,
                      <<"\"","A","\"","\"","B","\"",",","\"","x",",","y","\"">>>>

\* The records with Heart Disease = 1 and Stroke Occurrence = 1, by position,
\* and those of them whose field is an int or a float.
HeartStrokeMatches ==
    {i \in 1..Len(data) :
        /\ PyEq(Get(data[i], "Heart Disease"), PyInt(1))
        /\ PyEq(Get(data[i], "Stroke Occurrence"), PyInt(1))}

HeartStrokeNumeric(field) == {i \in HeartStrokeMatches : IsNumber(Get(data[i], field))}

\* The numeric glucose levels of the first n records, matching ones only.
RECURSIVE HeartStrokeGlucose(_)
HeartStrokeGlucose(n) ==
    IF n = 0 THEN <<>>
    ELSE HeartStrokeGlucose(n - 1)
            \o (IF n \in HeartStrokeNumeric("Average Glucose Level")
                THEN <<Get(data[n], "Average Glucose Level")>> ELSE <<>>)

\* C21: query_heart_disease_stroke chooses between message and bundle by the
\* ages alone.  With a numeric Age among the records with Heart Disease = 1
\* and Stroke Occurrence = 1 it returns a bundle whose count is the number
\* of those records with a numeric Age and whose average_glucose_level is
\* the mean over those with a numeric glucose level, None when there is
\* none; with no numeric Age it returns the message, whatever the glucose
\* levels are.
Thm_C21 ==
    call.fn = "query_heart_disease_stroke" =>
        IF HeartStrokeNumeric("Age") # {}
        THEN /\ "message" \notin DOMAIN ret
             /\ ret.count = PyInt(Cardinality(HeartStrokeNumeric("Age")))
             /\ ret.average_glucose_level =
                    IF HeartStrokeNumeric("Average Glucose Level") = {} THEN PyNone
                    ELSE _calculate_mean(HeartStrokeGlucose(Len(data)))
        ELSE DOMAIN ret = {"message"}

\* Two matching records, one with a numeric Age, none with a numeric glucose
\* level: a bundle counting one, its average glucose level None.
Wit_C21 ==
    /\ call.fn = "query_heart_disease_stroke"
    /\ Cardinality(HeartStrokeMatches) = 2
    /\ Cardinality(HeartStrokeNumeric("Age")) = 1
    /\ HeartStrokeNumeric("Average Glucose Level") = {}
    /\ ret.count = PyInt(1)
    /\ ret.average_glucose_level = PyNone

====
